---- MODULE Spec2Model ----
(***************************************************************************)
(* A model of patient_automation.py: one run of the script is a walk       *)
(* through its sections (config check, open workbook, ensure archive       *)
(* sheet, load and normalize, filter, channel setup, per-row loop), and    *)
(* the workbook (source sheet and archive sheet) is the state that         *)
(* survives from one run to the next.                                      *)
(*                                                                         *)
(* Strings.  A cell value is a Text: a sequence of runs [ch, n], the atom  *)
(* ch repeated n times.  An atom is one character, or a word that no       *)
(* operation of the script splits; every text the script truncates is      *)
(* built of one-character atoms only.  A header name is a record           *)
(* [base, case, pad]: its lower-cased, stripped form, the letter case it   *)
(* is written in, and whether white space surrounds it; str.lower and      *)
(* str.strip act on the last two fields.                                   *)
(*                                                                         *)
(* The spreadsheet backend is taken to answer every call the script does   *)
(* not guard with try/except; the guarded calls (open, update_cell and     *)
(* append_row in the loop, SMTP, Slack, OpenAI) succeed or raise.          *)
(***************************************************************************)
EXTENDS Integers, Sequences, FiniteSets, TLC

VARIABLES
    env,            \* the .env settings and creds.json, read at start-up
    backend,        \* what an OpenAI call can answer (environment)
    headers,        \* source sheet, row 1
    grid,           \* source sheet, rows 2.. (grid[k] is sheet row k+1)
    archiveExists,  \* the PROCESSED_SHEET worksheet exists
    archiveHeader,  \* its A1:F1
    archiveRows,    \* its appended rows
    pc,             \* the section of the script the run is in
    exitCode,       \* -1 while running
    exitMsg,        \* the message printed at exit
    dfCols,         \* df.columns
    dfRows,         \* df rows (df index k-1 is dfRows[k])
    renames,        \* the renames dict, as a set of <<src, canonical>>
    new_rows,       \* new_rows_df's index, in order
    pos,            \* position of the loop in new_rows (1-based)
    yag,            \* yag is not None
    slack,          \* slack is not None
    use_openai,
    processed_col_idx,
    updates_made,
    ai_json,        \* the current row's ai_json
    resp,           \* what the OpenAI call of the current row answered
    rowLog,         \* [idx, evs]: calls and prints of the last loop iteration
    warnings,       \* the run's write warnings, in print order
    effects,        \* history: kinds of write the run has made to the workbook
    cur,            \* history: sheet rows this run notified / marked
    start,          \* history: the workbook as the run found it
    prev,           \* history: what the earlier runs did
    runNo

envVars     == <<env, backend>>
sheetVars   == <<headers, grid>>
archiveVars == <<archiveExists, archiveHeader, archiveRows>>
exitVars    == <<exitCode, exitMsg>>
dfVars      == <<dfCols, dfRows, renames, new_rows>>
chanVars    == <<yag, slack, use_openai>>
loopVars    == <<pos, processed_col_idx, updates_made, ai_json, resp, rowLog,
                 warnings>>
histVars    == <<start, prev, runNo>>
vars == <<env, backend, headers, grid, archiveExists, archiveHeader,
          archiveRows, pc, exitCode, exitMsg, dfCols, dfRows, renames,
          new_rows, pos, yag, slack, use_openai, processed_col_idx,
          updates_made, ai_json, resp, rowLog, warnings, effects, cur, start,
          prev, runNo>>

\* ------------------------------------------------------------- bounds
MaxRows == 2
MaxRuns == 2

\* -------------------------------------------------------------- texts
Run(c, k) == [ch |-> c, n |-> k]
Word(s)   == <<Run(s, 1)>>
Empty     == <<>>
NL        == "\n"
SP        == " "

IsSpace(c) == c \in {SP, NL, "\t"}

RECURSIVE TextLen(_)
TextLen(t) == IF Len(t) = 0 THEN 0 ELSE Head(t).n + TextLen(Tail(t))

\* t[:k]
RECURSIVE Take(_, _)
Take(t, k) ==
    IF k <= 0 \/ Len(t) = 0 THEN <<>>
    ELSE IF Head(t).n <= k
         THEN <<Head(t)>> \o Take(Tail(t), k - Head(t).n)
         ELSE <<Run(Head(t).ch, k)>>

\* t.replace("\n", " ")
ReplaceNL(t) ==
    [i \in DOMAIN t |-> IF t[i].ch = NL THEN Run(SP, t[i].n) ELSE t[i]]

RECURSIVE LStrip(_)
LStrip(t) ==
    IF Len(t) = 0 THEN <<>>
    ELSE IF IsSpace(Head(t).ch) THEN LStrip(Tail(t)) ELSE t

RECURSIVE RStrip(_)
RStrip(t) ==
    IF Len(t) = 0 THEN <<>>
    ELSE IF IsSpace(t[Len(t)].ch) THEN RStrip(SubSeq(t, 1, Len(t) - 1)) ELSE t

\* t.strip()
Strip(t) == RStrip(LStrip(t))

\* the character of t at position i (1-based), "" past its end
RECURSIVE CharAt(_, _)
CharAt(t, i) ==
    IF Len(t) = 0 THEN ""
    ELSE IF i <= Head(t).n THEN Head(t).ch ELSE CharAt(Tail(t), i - Head(t).n)

\* x or d
OrElse(t, d) == IF Len(t) = 0 THEN d ELSE t

Yes       == Word("Yes")
YesLower  == Word("yes")
YesUpper  == Word("YES")
YesPadded == <<Run(SP, 1), Run("Yes", 1), Run(SP, 1)>>
Unknown   == Word("Unknown")

\* ------------------------------------------------------- header names
H(b, c, p) == [base |-> b, case |-> c, pad |-> p]
Lower(h)      == [h EXCEPT !.case = "lower"]
StripName(h)  == [h EXCEPT !.pad = FALSE]
Alias(b)      == H(b, "lower", FALSE)
Title(b)      == H(b, "title", FALSE)

ProcessedName == Title("processed")

Range(s) == {s[i] : i \in DOMAIN s}

\* list.index(x), 1-based
IndexOf(s, x) == CHOOSE i \in DOMAIN s : s[i] = x /\ \A j \in 1..(i - 1) : s[j] # x

\* ------------------------------------------------ header normalizer
FieldOrder == <<"Timestamp", "Name", "Email", "Symptoms", "Urgency">>

aliases ==
    [Timestamp |-> <<"timestamp", "time", "date/time", "date">>,
     Name      |-> <<"name", "full name", "your name">>,
     Email     |-> <<"email", "e-mail", "mail", "your email">>,
     Symptoms  |-> <<"symptoms", "message", "symptoms / message",
                     "symptom details", "description", "issue", "problem",
                     "notes", "details", "comments", "messages",
                     "patient message">>,
     Urgency   |-> <<"urgency", "priority", "severity", "how urgent">>]

\* the canonical column name of a field: "Timestamp", "Name", ...
Canonical(f) ==
    Title(CASE f = "Timestamp" -> "timestamp"
            [] f = "Name"      -> "name"
            [] f = "Email"     -> "email"
            [] f = "Symptoms"  -> "symptoms"
            [] f = "Urgency"   -> "urgency")

required_cols == [i \in DOMAIN FieldOrder |-> Canonical(FieldOrder[i])]

\* None, and the empty string: both are falsy in `if src:`
NoneName == H("", "lower", FALSE)

SetMax(S) == CHOOSE x \in S : \A y \in S : y <= x

\* lower_map.get(key): a dict comprehension keeps the last column of a key
LowerMapGet(cols, key) ==
    LET hits == {i \in DOMAIN cols : StripName(Lower(cols[i])) = key}
    IN  IF hits = {} THEN NoneName ELSE cols[SetMax(hits)]

FindSrcLast(cols, variants, i) ==
    LET Key(k) == StripName(Lower(Alias(variants[k])))
        hits   == {k \in i..Len(variants) : LowerMapGet(cols, Key(k)) # NoneName}
    IN  IF hits = {} THEN NoneName ELSE LowerMapGet(cols, Key(SetMax(hits)))

\* the inner loop over variants: the first variant that lower_map holds
RECURSIVE FindSrc(_, _, _)
FindSrc(cols, variants, i) ==
    IF i > Len(variants) THEN NoneName
    ELSE LET src == LowerMapGet(cols, StripName(Lower(Alias(variants[i]))))
         IN  IF src # NoneName THEN src ELSE FindSrc(cols, variants, i + 1)

\* renames[found_src] = canonical
DictPut(d, k, v) == {p \in d : p[1] # k} \cup {<<k, v>>}

\* the outer loop over aliases.items()
RECURSIVE BuildRenames(_, _, _)
BuildRenames(cols, i, acc) ==
    IF i > Len(FieldOrder) THEN acc
    ELSE LET f         == FieldOrder[i]
             found_src == FindSrc(cols, aliases[f], 1)
         IN  IF Canonical(f) \in Range(cols) THEN BuildRenames(cols, i + 1, acc)
             ELSE IF found_src # NoneName
                  THEN BuildRenames(cols, i + 1,
                                    DictPut(acc, found_src, Canonical(f)))
                  ELSE BuildRenames(cols, i + 1, acc)

\* df.rename(columns=renames)
RenameCols(cols, ren) ==
    [i \in DOMAIN cols |->
        IF \E p \in ren : p[1] = cols[i]
        THEN (CHOOSE p \in ren : p[1] = cols[i])[2]
        ELSE cols[i]]

\* missing = [c for c in required_cols if c not in df.columns]
Missing(cols) ==
    LET Absent(c) == c \notin Range(cols) IN SelectSeq(required_cols, Absent)

\* ------------------------------------------------------- source sheet
Cell(row, c) == IF c \in DOMAIN row THEN row[c] ELSE Empty

\* sheet.get_all_records(): one record per data row, keyed by row 1
GetAllRecords(hd, g) ==
    [k \in DOMAIN g |-> [c \in DOMAIN hd |-> Cell(g[k], c)]]

\* sheet.update_cell(1, c, v)
UpdateHeaderCell(hd, c, v) ==
    [j \in 1..(IF c > Len(hd) THEN c ELSE Len(hd)) |->
        IF j = c THEN v ELSE IF j \in DOMAIN hd THEN hd[j] ELSE NoneName]

\* sheet.update_cell(r, c, v) for a data row r >= 2
UpdateDataCell(g, r, c, v) ==
    LET k == r - 1
        Old(i) == IF i \in DOMAIN g THEN g[i] ELSE <<>>
        New(row) == [j \in 1..(IF c > Len(row) THEN c ELSE Len(row)) |->
                        IF j = c THEN v ELSE Cell(row, j)]
    IN  [i \in 1..(IF k > Len(g) THEN k ELSE Len(g)) |->
            IF i = k THEN New(Old(i)) ELSE Old(i)]

\* ensure_column: the first row after the call
EnsureColumnHeaders(hd, header_name) ==
    IF header_name \notin Range(hd)
    THEN UpdateHeaderCell(hd, Len(hd) + 1, header_name)
    ELSE hd

\* ensure_column: the 1-based index it returns
EnsureColumnIndex(hd, header_name) ==
    IndexOf(EnsureColumnHeaders(hd, header_name), header_name)

\* row.get(name, "") on df row k
DfGet(cols, rows, k, name) ==
    IF name \in Range(cols) THEN rows[k][IndexOf(cols, name)] ELSE Empty

\* --------------------------------------------------------- summarizer
SummaryLimit == 200
RawLimit     == 600

\* json.dumps / json.loads of the summary record
Dumps(rec) == [json |-> rec]
Loads(s)   == s.json

Str(t)  == [t |-> "str", v |-> t]
Absent  == [t |-> "missing", v |-> Empty]
NotStr  == [t |-> "other", v |-> Empty]

\* replies of the OpenAI call: it raises (err), or answers content that
\* json.loads rejects ("invalid"), parses to a non-dict ("nondict") or to a
\* dict whose fields are strings, missing, or something else
Raised(err)        == [kind |-> "error", err |-> err, text |-> Empty,
                       parse |-> "invalid",
                       obj |-> [summary |-> Absent, urgency |-> Absent,
                                keywords |-> <<>>]]
Content(t, p, o)   == [kind |-> "content", err |-> Empty, text |-> t,
                       parse |-> p, obj |-> o]
NoObj              == [summary |-> Absent, urgency |-> Absent, keywords |-> <<>>]
NoReply            == Raised(Empty)

\* the call answers a message whose content is None: .strip() raises
\* AttributeError inside the outer try
NoContent          == [kind |-> "none", err |-> Word("AttributeError"),
                       text |-> Empty, parse |-> "invalid", obj |-> NoObj]

\* the no-backend summary: f"Reported symptoms: {trunc}..."
FallbackSummary(symptoms) ==
    Word("Reported symptoms: ")
        \o ReplaceNL(Take(OrElse(symptoms, Empty), SummaryLimit))
        \o Word("...")

RawSummaryWhole(content) == content

\* content[:600]
RawSummary(content) == Take(content, RawLimit)

\* f"(OpenAI error: {e})"
ErrorSummary(err) == Word("(OpenAI error: ") \o err \o Word(")")

\* the inner try succeeds: json.loads, both .strip() calls
ParsesOk(reply) ==
    /\ reply.parse = "dict"
    /\ reply.obj.summary.t # "other"
    /\ reply.obj.urgency.t # "other"

ai_summarize(useAI, symptoms, urgency, reply) ==
    IF ~useAI
    THEN Dumps([summary  |-> FallbackSummary(symptoms),
                urgency  |-> OrElse(urgency, Unknown),
                keywords |-> <<>>])
    ELSE IF reply.kind \in {"error", "none"}
    THEN Dumps([summary  |-> ErrorSummary(reply.err),
                urgency  |-> OrElse(urgency, Unknown),
                keywords |-> <<>>])
    ELSE IF ParsesOk(reply)
    THEN Dumps([summary  |-> Strip(reply.obj.summary.v),
                urgency  |-> Strip(OrElse(reply.obj.urgency.v,
                                          OrElse(urgency, Unknown))),
                keywords |-> reply.obj.keywords])
    ELSE Dumps([summary  |-> RawSummary(Strip(reply.text)),
                urgency  |-> OrElse(urgency, Unknown),
                keywords |-> <<>>])

\* ------------------------------------------------------ sample inputs
TsText(k)    == <<Run("T", k)>>
SampleName   == Word("Jo")
SampleEmail  == <<Run(SP, 1), Run("jo@x.com", 1)>>
ShortText    == <<Run("f", 5)>>
LongText     == <<Run(SP, 1), Run("a", 150), Run(NL, 1), Run("b", 100),
                  Run(SP, 2)>>
High         == Word("High")

InAliases(f, h) ==
    \E i \in DOMAIN aliases[f] : aliases[f][i] = StripName(Lower(h)).base

\* what a form submission puts under header h for inquiry k
SampleCell(h, k, pv, sym, urg) ==
    IF h = ProcessedName THEN pv
    ELSE IF InAliases("Timestamp", h) THEN TsText(k)
    ELSE IF InAliases("Name", h) THEN SampleName
    ELSE IF InAliases("Email", h) THEN SampleEmail
    ELSE IF InAliases("Symptoms", h) THEN sym
    ELSE IF InAliases("Urgency", h) THEN urg
    ELSE Word("x")

SampleRow(hd, k, pv, sym, urg) ==
    [c \in DOMAIN hd |-> SampleCell(hd[c], k, pv, sym, urg)]

LayoutCanon ==
    <<Title("timestamp"), Title("name"), Title("email"), Title("symptoms"),
      Title("urgency"), ProcessedName>>
LayoutForm ==
    <<Title("timestamp"), H("full name", "title", FALSE),
      H("e-mail", "upper", TRUE), H("message", "title", FALSE),
      H("priority", "lower", TRUE)>>
LayoutProcFirst ==
    <<ProcessedName, Title("date"), Title("name"), Title("email"),
      H("notes", "upper", FALSE), Title("urgency")>>
LayoutNoUrgency ==
    <<Title("timestamp"), Title("name"), Title("email"), Title("symptoms"),
      Title("phone")>>
Layouts == {LayoutCanon, LayoutForm, LayoutProcFirst, LayoutNoUrgency}


Env(l, c, e, s, o) ==
    [locator |-> l, creds |-> c, email |-> e, slack |-> s, openai |-> o]
Envs ==
    {Env(FALSE, TRUE, FALSE, FALSE, FALSE), Env(TRUE, FALSE, FALSE, FALSE, FALSE),
     Env(TRUE, TRUE, FALSE, FALSE, FALSE), Env(TRUE, TRUE, FALSE, TRUE, FALSE),
     Env(TRUE, TRUE, TRUE, TRUE, TRUE)}

GoodJson ==
    Content(Word("{json}"), "dict",
            [summary |-> Str(Word("two lines")), urgency |-> Str(Word("Low")),
             keywords |-> <<Word("k1"), Word("k2"), Word("k3")>>])
BadText  == Content(<<Run("z", 700)>>, "invalid", NoObj)
Replies  == {GoodJson, Raised(Word("timeout"))}

ArchiveHeaderRow ==
    <<"Timestamp", "Name", "Email", "Summary", "Urgency", "Status">>

NoJson   == Dumps([summary |-> Empty, urgency |-> Empty, keywords |-> <<>>])
NoRowLog == [idx |-> -1, evs |-> <<>>]
NoCur    == [notified |-> {}, marked |-> {}]
NoPrev   == [ran |-> FALSE, exitMsg |-> "", selected |-> {}, notified |-> {},
             marked |-> {}, added |-> FALSE]

Snapshot(hd, g, ae, ar) ==
    [headers |-> hd, grid |-> g, archiveExists |-> ae, archiveRows |-> ar]

\* the run-local state at the start of a run
RunStart ==
    /\ pc = "config" /\ exitCode = -1 /\ exitMsg = ""
    /\ dfCols = <<>> /\ dfRows = <<>> /\ renames = {} /\ new_rows = <<>>
    /\ pos = 0 /\ yag = FALSE /\ slack = FALSE /\ use_openai = FALSE
    /\ processed_col_idx = 0 /\ updates_made = 0
    /\ ai_json = NoJson
    /\ resp = NoReply /\ rowLog = NoRowLog /\ warnings = <<>>
    /\ effects = {} /\ cur = NoCur

InitOf(L, E, B, P, S, U, A, N) ==
    \E layout \in L, e \in E, n \in N, ae \in A :
      \E pv \in [1..n -> P], sy \in [1..n -> S], ur \in [1..n -> U] :
        /\ env = e
        /\ backend = B
        /\ headers = layout
        /\ grid = [k \in 1..n |-> SampleRow(layout, k, pv[k], sy[k], ur[k])]
        /\ archiveExists = ae
        /\ archiveHeader = IF ae THEN ArchiveHeaderRow ELSE <<>>
        /\ archiveRows = <<>>
        /\ RunStart
        /\ start = Snapshot(headers, grid, archiveExists, archiveRows)
        /\ prev = NoPrev
        /\ runNo = 1

Init ==
    InitOf(Layouts, Envs, Replies, {Empty, Yes}, {LongText}, {High}, BOOLEAN,
           0..MaxRows)

\* ------------------------------------------------------------ the run
\* die(msg) is sys.exit(1); the two clean exits are sys.exit(0)
Exit(code, msg) == pc' = "exit" /\ exitCode' = code /\ exitMsg' = msg
Goto(l)         == pc' = l /\ UNCHANGED exitVars

\* 1) load env: the two settings the script cannot run without
CheckConfig ==
    /\ pc = "config"
    /\ IF ~env.locator THEN Exit(1, "no_locator")
       ELSE IF ~env.creds THEN Exit(1, "no_creds")
       ELSE Goto("open")
    /\ UNCHANGED <<envVars, sheetVars, archiveVars, dfVars, chanVars, loopVars,
                   effects, cur, histVars>>

\* 2) open the workbook
OpenWorkbook ==
    /\ pc = "open"
    /\ \E ok \in BOOLEAN :
         IF ok THEN Goto("archive") ELSE Exit(1, "cannot_open")
    /\ UNCHANGED <<envVars, sheetVars, archiveVars, dfVars, chanVars, loopVars,
                   effects, cur, histVars>>

\* "Ensure Processed sheet exists"
EnsureArchive ==
    /\ pc = "archive"
    /\ IF archiveExists
       THEN UNCHANGED <<archiveVars, effects>>
       ELSE /\ archiveExists' = TRUE
            /\ archiveHeader' = ArchiveHeaderRow
            /\ archiveRows' = <<>>
            /\ effects' = effects \cup {"add_worksheet", "archive_header"}
    /\ Goto("load")
    /\ UNCHANGED <<envVars, sheetVars, dfVars, chanVars, loopVars, cur,
                   histVars>>

SheetEmptyNever(hd, g) == FALSE

\* df.empty: no data row
SheetEmpty(hd, g) == Len(GetAllRecords(hd, g)) = 0

\* row 1 of the source sheet when section 3 has read the responses
HeadersAfterLoad(hd, g) ==
    IF SheetEmpty(hd, g) THEN hd
    ELSE IF ProcessedName \notin Range(hd)
         THEN EnsureColumnHeaders(hd, ProcessedName)
         ELSE hd

\* 3) load responses, exit on an empty sheet, ensure the Processed column
LoadRecords ==
    /\ pc = "load"
    /\ headers' = HeadersAfterLoad(headers, grid)
    /\ effects' = IF headers' # headers THEN effects \cup {"source_header"}
                  ELSE effects
    /\ IF SheetEmpty(headers, grid)
       THEN /\ Exit(0, "sheet_empty")
            /\ UNCHANGED <<dfCols, dfRows>>
       ELSE /\ dfCols' = headers'
            /\ dfRows' = GetAllRecords(headers', grid)
            /\ Goto("normalize")
    /\ UNCHANGED <<envVars, grid, archiveVars, renames, new_rows, chanVars,
                   loopVars, cur, histVars>>

\* aliases -> renames -> required columns
Normalize ==
    /\ pc = "normalize"
    /\ renames' = BuildRenames(dfCols, 1, {})
    /\ dfCols' = RenameCols(dfCols, renames')
    /\ IF Len(Missing(dfCols')) > 0 THEN Exit(1, "missing_columns")
       ELSE Goto("filter")
    /\ UNCHANGED <<envVars, sheetVars, archiveVars, dfRows, new_rows, chanVars,
                   loopVars, effects, cur, histVars>>

IsUnprocessedFolded(v) == v \notin {Yes, YesLower, YesUpper, YesPadded}

IsUnprocessedAlways(v) == TRUE

\* df.get("Processed", "") != "Yes", for one value
IsUnprocessed(v) == v # Yes

\* the index of df[...], in df order (0-based labels)
RECURSIVE FilterIndex(_, _, _)
FilterIndex(cols, rows, k) ==
    IF k > Len(rows) THEN <<>>
    ELSE (IF IsUnprocessed(DfGet(cols, rows, k, ProcessedName))
          THEN <<k - 1>> ELSE <<>>) \o FilterIndex(cols, rows, k + 1)

\* "Unprocessed rows"
Filter ==
    /\ pc = "filter"
    /\ new_rows' = FilterIndex(dfCols, dfRows, 1)
    /\ IF Len(new_rows') = 0 THEN Exit(0, "no_new") ELSE Goto("email_setup")
    /\ UNCHANGED <<envVars, sheetVars, archiveVars, dfCols, dfRows, renames,
                   chanVars, loopVars, effects, cur, histVars>>

\* 4) yag: SSL 465, then STARTTLS 587, then none
EmailSetup ==
    /\ pc = "email_setup"
    /\ IF env.email
       THEN \E ssl \in BOOLEAN, starttls \in BOOLEAN : yag' = (ssl \/ starttls)
       ELSE yag' = FALSE
    /\ Goto("slack_setup")
    /\ UNCHANGED <<envVars, sheetVars, archiveVars, dfVars, slack, use_openai,
                   loopVars, effects, cur, histVars>>

\* 5) slack: needs token, channel and the SDK
SlackSetup ==
    /\ pc = "slack_setup"
    /\ IF env.slack
       THEN \E sdk \in BOOLEAN : slack' = sdk
       ELSE slack' = FALSE
    /\ Goto("openai_setup")
    /\ UNCHANGED <<envVars, sheetVars, archiveVars, dfVars, yag, use_openai,
                   loopVars, effects, cur, histVars>>

\* 6) use_openai: needs the key and the import
OpenAISetup ==
    /\ pc = "openai_setup"
    /\ IF env.openai
       THEN \E imported \in BOOLEAN : use_openai' = imported
       ELSE use_openai' = FALSE
    /\ Goto("ensure_col")
    /\ UNCHANGED <<envVars, sheetVars, archiveVars, dfVars, yag, slack,
                   loopVars, effects, cur, histVars>>

\* 7) processed_col_idx = ensure_column(sheet, "Processed"); updates_made = 0
EnsureCol ==
    /\ pc = "ensure_col"
    /\ headers' = EnsureColumnHeaders(headers, ProcessedName)
    /\ processed_col_idx' = EnsureColumnIndex(headers, ProcessedName)
    /\ effects' = IF headers' # headers THEN effects \cup {"source_header"}
                  ELSE effects
    /\ updates_made' = 0
    /\ pos' = 1
    /\ Goto("loop")
    /\ UNCHANGED <<envVars, grid, archiveVars, dfVars, chanVars, ai_json, resp,
                   rowLog, warnings, cur, histVars>>

\* for idx, row in new_rows_df.iterrows(): the next row, or the end of the
\* loop.  The iteration's locals (ai_json, the reply, its log) are dead
\* here: the next iteration assigns them before it reads them.
LoopHead ==
    /\ pc = "loop"
    /\ IF pos <= Len(new_rows) THEN Goto("summarize") ELSE Goto("finish")
    /\ ai_json' = NoJson
    /\ resp' = NoReply
    /\ rowLog' = NoRowLog
    /\ UNCHANGED <<envVars, sheetVars, archiveVars, dfVars, chanVars, pos,
                   processed_col_idx, updates_made, warnings, effects, cur,
                   histVars>>

idx == new_rows[pos]
RowField(f) == Strip(DfGet(dfCols, dfRows, idx + 1, Canonical(f)))

Log(ev) == rowLog' = [rowLog EXCEPT !.evs = Append(@, ev)]

\* the row's fields and ai_json = ai_summarize(symptoms, urgency)
Summarize ==
    /\ pc = "summarize"
    /\ IF use_openai
       THEN \E reply \in backend : resp' = reply
       ELSE resp' = NoReply
    /\ ai_json' = ai_summarize(use_openai, RowField("Symptoms"),
                               RowField("Urgency"), resp')
    /\ rowLog' = [idx |-> idx, evs |-> <<"summarized">>]
    /\ Goto("email")
    /\ UNCHANGED <<envVars, sheetVars, archiveVars, dfVars, chanVars, pos,
                   processed_col_idx, updates_made, warnings, effects, cur,
                   histVars>>

AfterEmailAbort(sent) == IF sent THEN "slack" ELSE "loop"

\* where the loop goes after the email block
AfterEmail(sent) == "slack"

\* "Send email if possible"
SendEmail ==
    /\ pc = "email"
    /\ IF yag
       THEN \E sent \in BOOLEAN :
              /\ Log(IF sent THEN "email_sent" ELSE "email_failed")
              /\ Goto(AfterEmail(sent))
       ELSE /\ Log("email_skipped")
            /\ Goto(AfterEmail(FALSE))
    /\ UNCHANGED <<envVars, sheetVars, archiveVars, dfVars, chanVars, pos,
                   processed_col_idx, updates_made, ai_json, resp, warnings,
                   effects, cur, histVars>>

\* slack_notify(...): False without a client, else one send
SlackNotify ==
    /\ pc = "slack"
    /\ IF slack
       THEN \E sent \in BOOLEAN :
              Log(IF sent THEN "slack_sent" ELSE "slack_failed")
       ELSE UNCHANGED rowLog
    /\ cur' = [cur EXCEPT !.notified = @ \cup {idx + 2}]
    /\ Goto("mark")
    /\ UNCHANGED <<envVars, sheetVars, archiveVars, dfVars, chanVars, pos,
                   processed_col_idx, updates_made, ai_json, resp, warnings,
                   effects, histVars>>

MarkRowByCount(i) == pos + 1

\* the sheet row of df label i: "+2 for header and df zero-index"
MarkRow(i) == i + 2

MarkWarningNone(i) == <<>>

\* the except clause of the mark: one warning naming the row
MarkWarning(i) == <<[ev |-> "mark_failed", row |-> i + 2, at |-> i]>>

\* where the loop goes after the mark block
AfterMark(ok) == "append"

\* "Mark processed in responses sheet"
MarkProcessed ==
    /\ pc = "mark"
    /\ \E ok \in BOOLEAN :
         /\ IF ok
            THEN /\ grid' = UpdateDataCell(grid, MarkRow(idx),
                                           processed_col_idx, Yes)
                 /\ effects' = effects \cup {"mark"}
                 /\ cur' = [cur EXCEPT !.marked = @ \cup {idx + 2}]
                 /\ UNCHANGED warnings
            ELSE /\ warnings' = warnings \o MarkWarning(idx)
                 /\ UNCHANGED <<grid, effects, cur>>
         /\ Log(IF ok THEN "mark_ok" ELSE "mark_failed")
         /\ Goto(AfterMark(ok))
    /\ UNCHANGED <<envVars, headers, archiveVars, dfVars, chanVars, pos,
                   processed_col_idx, updates_made, ai_json, resp, histVars>>

\* the row handed to processed_ws.append_row
ArchiveEntry ==
    LET parsed == Loads(ai_json)
    IN  <<RowField("Timestamp"), RowField("Name"), RowField("Email"),
          parsed.summary, parsed.urgency, Word("Processed")>>

\* the except clause of the append: one warning (it names the sheet only)
AppendWarning(i) == <<[ev |-> "append_failed", row |-> 0, at |-> i]>>

AfterAppendBreak(ok) == IF ok THEN "loop" ELSE "finish"

\* where the loop goes after the append block
AfterAppend(ok) == "loop"

\* "Append to Processed sheet"; updates_made += 1
AppendArchive ==
    /\ pc = "append"
    /\ \E ok \in BOOLEAN :
         /\ IF ok
            THEN /\ archiveRows' = Append(archiveRows, ArchiveEntry)
                 /\ effects' = effects \cup {"append"}
                 /\ UNCHANGED warnings
            ELSE /\ warnings' = warnings \o AppendWarning(idx)
                 /\ UNCHANGED <<archiveRows, effects>>
         /\ Log(IF ok THEN "append_ok" ELSE "append_failed")
         /\ Goto(AfterAppend(ok))
    /\ updates_made' = updates_made + 1
    /\ pos' = pos + 1
    /\ UNCHANGED <<envVars, sheetVars, archiveExists, archiveHeader, dfVars,
                   chanVars, processed_col_idx, ai_json, resp, cur, histVars>>

\* "All new entries processed. Rows updated: ..."
Finish ==
    /\ pc = "finish"
    /\ Exit(0, "all_processed")
    /\ UNCHANGED <<envVars, sheetVars, archiveVars, dfVars, chanVars, loopVars,
                   effects, cur, histVars>>

\* ---------------------------------------------------- between two runs
\* a form submission appends one inquiry to the source sheet
FormSubmit ==
    /\ pc = "exit"
    /\ runNo < MaxRuns
    /\ Len(grid) < MaxRows
    /\ grid' = Append(grid, SampleRow(headers, Len(grid) + 1, Empty,
                                      LongText, High))
    /\ UNCHANGED <<envVars, headers, archiveVars, pc, exitVars, dfVars,
                   chanVars, loopVars, effects, cur, histVars>>

\* the script is started again on the workbook as it is now
Rerun ==
    /\ pc = "exit"
    /\ runNo < MaxRuns
    /\ runNo' = runNo + 1
    /\ prev' = [ran      |-> TRUE,
                exitMsg  |-> exitMsg,
                selected |-> {new_rows[j] + 2 : j \in DOMAIN new_rows},
                notified |-> cur.notified,
                marked   |-> cur.marked,
                added    |-> Len(grid) > Len(start.grid)]
    /\ start' = Snapshot(headers, grid, archiveExists, archiveRows)
    /\ pc' = "config" /\ exitCode' = -1 /\ exitMsg' = ""
    /\ dfCols' = <<>> /\ dfRows' = <<>> /\ renames' = {} /\ new_rows' = <<>>
    /\ pos' = 0 /\ yag' = FALSE /\ slack' = FALSE /\ use_openai' = FALSE
    /\ processed_col_idx' = 0 /\ updates_made' = 0
    /\ ai_json' = NoJson
    /\ resp' = NoReply /\ rowLog' = NoRowLog /\ warnings' = <<>>
    /\ effects' = {} /\ cur' = NoCur
    /\ UNCHANGED <<envVars, sheetVars, archiveVars>>

Next ==
    \/ CheckConfig \/ OpenWorkbook \/ EnsureArchive \/ LoadRecords
    \/ Normalize \/ Filter \/ EmailSetup \/ SlackSetup \/ OpenAISetup
    \/ EnsureCol \/ LoopHead \/ Summarize \/ SendEmail \/ SlackNotify
    \/ MarkProcessed \/ AppendArchive \/ Finish

\* one run of the script
Spec == Init /\ [][Next]_vars

\* runs of the script one after another on the same workbook, with form
\* submissions in between; email is the only channel and there is no
\* summarization backend
RerunEnvs ==
    {Env(TRUE, TRUE, FALSE, FALSE, FALSE), Env(TRUE, TRUE, TRUE, FALSE, FALSE)}

InitRerun ==
    InitOf({LayoutCanon, LayoutForm}, RerunEnvs, Replies, {Empty, Yes},
           {LongText}, {High}, {FALSE}, 0..MaxRows)

NextRerun == Next \/ FormSubmit \/ Rerun

SpecRerun == InitRerun /\ [][NextRerun]_vars

\* ============================================================ claims
\* the Processed cell of sheet row r (r >= 2) in sheet (hd, g)
ProcessedCell(hd, g, r) ==
    IF ProcessedName \in Range(hd) /\ (r - 1) \in DOMAIN g
    THEN Cell(g[r - 1], IndexOf(hd, ProcessedName))
    ELSE Empty

\* the timestamp the loop reads for df label i
TimestampOf(i) == Strip(DfGet(dfCols, dfRows, i + 1, Canonical("Timestamp")))

\* archive entries appended in this run for df label i
EntriesFor(i) ==
    Cardinality({k \in (Len(start.archiveRows) + 1)..Len(archiveRows) :
                    archiveRows[k][1] = TimestampOf(i)})

WarningsAt(i, ev) == {k \in DOMAIN warnings : warnings[k].at = i /\ warnings[k].ev = ev}

\* the loop is over, or has gone past position j of new_rows
Handled(j) == pc \in {"loop", "summarize", "email", "slack", "mark", "append",
                      "finish", "exit"} /\ j < pos

LoopDone == pc = "exit" /\ exitMsg = "all_processed"

\* the two writes of df label i have each succeeded or been warned about
Settled(i) ==
    /\ \/ ProcessedCell(headers, grid, i + 2) = Yes
       \/ WarningsAt(i, "mark_failed") # {}
    /\ \/ EntriesFor(i) = 1
       \/ EntriesFor(i) = 0 /\ WarningsAt(i, "append_failed") # {}

\* C1: every selected row the loop has handled has its Processed cell set to
\* "Yes" and exactly one archive entry of this run, or a warning for each of
\* the two writes that failed; no row has more than one entry of this run;
\* and a run that ends the loop has handled every selected row.
C1_EveryRowSettled ==
    /\ \A j \in DOMAIN new_rows :
         /\ Handled(j) => Settled(new_rows[j])
         /\ EntriesFor(new_rows[j]) <= 1
    /\ LoopDone => pos = Len(new_rows) + 1

\* C1 witness: a finished run in which one row got both writes and another
\* row lost both and has its two warnings
C1_Witness ==
    /\ LoopDone
    /\ \E a, b \in Range(new_rows) :
         /\ ProcessedCell(headers, grid, a + 2) = Yes /\ EntriesFor(a) = 1
         /\ WarningsAt(a, "mark_failed") = {} /\ WarningsAt(a, "append_failed") = {}
         /\ ProcessedCell(headers, grid, b + 2) # Yes /\ EntriesFor(b) = 0
         /\ WarningsAt(b, "mark_failed") # {} /\ WarningsAt(b, "append_failed") # {}

Has(ev) == \E k \in DOMAIN rowLog.evs : rowLog.evs[k] = ev

\* event a is in the iteration's log and event b or c follows it
Then(a, b, c) ==
    \E k \in DOMAIN rowLog.evs :
      /\ rowLog.evs[k] = a
      /\ \E m \in (k + 1)..Len(rowLog.evs) : rowLog.evs[m] \in {b, c}

\* an iteration of the loop has just ended (before the `for` takes over)
IterationEnded == pc = "loop" /\ rowLog.idx >= 0

\* no step of the loop has touched df label i
Untouched(i) ==
    /\ (i + 2) \notin cur.notified
    /\ rowLog.idx # i
    /\ EntriesFor(i) = 0
    /\ WarningsAt(i, "mark_failed") = {} /\ WarningsAt(i, "append_failed") = {}
    /\ ProcessedCell(headers, grid, i + 2) = ProcessedCell(headers, start.grid, i + 2)

InLoop == pc \in {"loop", "summarize", "email", "slack", "mark", "append"}

\* C3: a failed flag update or archive append neither aborts the loop nor
\* skips work.  An iteration that ends has attempted the flag update and,
\* after it (also after its failure), the archive append; a failure of each
\* is reported by its own warning; rows are handled one after another in
\* sheet order: the rows before the current one are settled and the rows
\* after it untouched; and the run ends the loop only past the last row,
\* with every selected row notified and counted.
C3_FailuresDoNotStopLoop ==
    /\ IterationEnded =>
         /\ Then("mark_ok", "append_ok", "append_failed")
              \/ Then("mark_failed", "append_ok", "append_failed")
         /\ Has("mark_failed") =>
              Cardinality(WarningsAt(rowLog.idx, "mark_failed")) = 1
         /\ Has("append_failed") =>
              Cardinality(WarningsAt(rowLog.idx, "append_failed")) = 1
    /\ \A j, k \in DOMAIN new_rows : j < k => new_rows[j] < new_rows[k]
    /\ InLoop =>
         \A j \in DOMAIN new_rows :
           /\ j < pos => Settled(new_rows[j]) /\ (new_rows[j] + 2) \in cur.notified
           /\ j > pos => Untouched(new_rows[j])
    /\ LoopDone =>
         /\ pos = Len(new_rows) + 1
         /\ updates_made = Len(new_rows)
         /\ cur.notified = {new_rows[j] + 2 : j \in DOMAIN new_rows}
         /\ \A j \in DOMAIN new_rows : Settled(new_rows[j])

\* C3 witness: the first selected row lost both writes, each with its
\* warning, and the loop went on to mark and archive a later row
C3_Witness ==
    /\ LoopDone
    /\ Len(new_rows) >= 2
    /\ WarningsAt(new_rows[1], "mark_failed") # {}
    /\ WarningsAt(new_rows[1], "append_failed") # {}
    /\ ProcessedCell(headers, grid, new_rows[2] + 2) = Yes
    /\ EntriesFor(new_rows[2]) = 1

\* C5: whatever the state of the channels, an iteration that ends has
\* handled the email block once (a send when there is a client, a skip when
\* there is none), has attempted the chat send whenever there is a chat
\* client (also after a failed or skipped email), and has attempted both the
\* Processed-cell update and the archive append after them.
C5_ChannelsNeverBlockLedger ==
    IterationEnded =>
      /\ Cardinality({k \in DOMAIN rowLog.evs :
            rowLog.evs[k] \in {"email_sent", "email_failed", "email_skipped"}}) = 1
      /\ Has("email_skipped") <=> ~yag
      /\ slack <=> (Has("slack_sent") \/ Has("slack_failed"))
      /\ \A e \in {"email_sent", "email_failed", "email_skipped",
                   "slack_sent", "slack_failed"} :
           Has(e) => Then(e, "mark_ok", "mark_failed")
      /\ Has("mark_ok") \/ Has("mark_failed")
      /\ Has("append_ok") \/ Has("append_failed")

\* C5 witness: the email send and the chat send both failed and the row was
\* still marked and archived
C5_Witness ==
    /\ IterationEnded
    /\ Has("email_failed") /\ Has("slack_failed")
    /\ Has("mark_ok") /\ Has("append_ok")
    /\ ProcessedCell(headers, grid, rowLog.idx + 2) = Yes
    /\ EntriesFor(rowLog.idx) = 1

\* C5, the set-up side: email configured but no client (login failed on
\* both transports), no chat client, row marked and archived
C5_WitnessLoginFailed ==
    /\ IterationEnded
    /\ env.email /\ ~yag /\ ~slack
    /\ Has("email_skipped") /\ Has("mark_ok") /\ Has("append_ok")

Wider(a, b) == IF Len(a) > Len(b) THEN Len(a) ELSE Len(b)

\* a step of the run (not one of the form's) leaves the source sheet alone
\* but for the Processed header and the current row's Processed cell
SourceFrame ==
    pc # "exit" =>
      /\ Len(grid') = Len(grid)
      /\ \/ headers' = headers
         \/ /\ ProcessedName \notin Range(headers)
            /\ headers' = Append(headers, ProcessedName)
      /\ \A k \in DOMAIN grid : \A c \in 1..Wider(grid[k], grid'[k]) :
           Cell(grid'[k], c) # Cell(grid[k], c) =>
             /\ pc = "mark"
             /\ k = new_rows[pos] + 1
             /\ ProcessedName \in Range(headers)
             /\ c = IndexOf(headers, ProcessedName)
             /\ Cell(grid'[k], c) = Yes
             /\ ProcessedCell(start.headers, start.grid, k + 1) # Yes
      /\ (pc = "mark" /\ warnings' = warnings) =>
           ProcessedCell(headers', grid', new_rows[pos] + 2) = Yes

\* C7: the run changes nothing in the source sheet but the Processed state:
\* it appends the Processed header once if it is missing, and a step that
\* changes a data cell is the mark of the current selected row, writing
\* "Yes" into the Processed column of that row's own sheet row (data row
\* k = df label + 1, sheet row k + 1), a row that was not "Yes"; a mark
\* that succeeds leaves "Yes" there; the number of rows never changes.
C7_OnlyProcessedStateWritten == [][SourceFrame]_vars

\* C7 witness: a selected row that follows filtered-out rows has been marked
\* at its own sheet row, and those before it are as they were
C7_Witness ==
    /\ pc = "append" /\ Has("mark_ok")
    /\ new_rows[pos] > pos - 1
    /\ ProcessedCell(headers, grid, new_rows[pos] + 2) = Yes
    /\ ProcessedCell(headers, start.grid, new_rows[pos] + 2) = Empty
    /\ \A k \in DOMAIN grid : k # new_rows[pos] + 1 => grid[k] = start.grid[k]

\* the run has written nothing and notified nobody
NothingDone ==
    /\ effects = {}
    /\ cur.notified = {}
    /\ headers = start.headers /\ grid = start.grid
    /\ archiveExists = start.archiveExists /\ archiveRows = start.archiveRows

FatalMsgs == {"no_locator", "no_creds", "cannot_open", "missing_columns"}

\* C4 (as claimed): a run that aborts on a fatal configuration error exits
\* non-zero having created or written no archive sheet, no header cell and
\* no data cell, and having notified nobody.
C4_AbortWithoutPartialWork ==
    (pc = "exit" /\ exitMsg \in FatalMsgs) => exitCode # 0 /\ NothingDone

\* the archive sheet is as the run found it, or was absent and now exists
\* with its fixed header and no row
ArchiveAtMostCreated ==
    /\ archiveExists
    /\ archiveRows = start.archiveRows
    /\ archiveHeader = ArchiveHeaderRow
    /\ ("add_worksheet" \in effects) <=> ~start.archiveExists

SourceAtMostProcessedHeader ==
    /\ grid = start.grid
    /\ \/ headers = start.headers
       \/ /\ ProcessedName \notin Range(start.headers)
          /\ headers = Append(start.headers, ProcessedName)

\* a run on a workbook it could open ended
RanToExit == pc = "exit" /\ exitMsg \notin {"no_locator", "no_creds", "cannot_open"}

Filtered ==
    \/ pc \in {"email_setup", "slack_setup", "openai_setup", "ensure_col", "loop",
               "summarize", "email", "slack", "mark", "append", "finish"}
    \/ pc = "exit" /\ exitMsg \in {"no_new", "all_processed"}

Selected == {new_rows[j] + 2 : j \in DOMAIN new_rows}

\* sheet rows whose Processed cell was not "Yes" when the run started
NotYesAtStart ==
    {r \in 2..(Len(start.grid) + 1) :
        ProcessedCell(start.headers, start.grid, r) # Yes}

\* C2: a run on the sheet an earlier run left selects exactly the rows whose
\* Processed cell is not "Yes" in that sheet.  A row the earlier run marked
\* is not selected and gets no notification and no archive entry; a row the
\* earlier run notified but failed to mark is selected, and notified again
\* by a run that ends its loop.  If the earlier run ended normally, marked
\* every row it selected and no row was added since, the run selects no row
\* and appends nothing.
C2_RerunSelectsUnmarkedRows ==
    (runNo >= 2 /\ prev.ran /\ Filtered) =>
      /\ Selected = NotYesAtStart
      /\ \A r \in prev.marked :
           /\ r \notin Selected /\ r \notin cur.notified
           /\ ProcessedCell(headers, grid, r) = Yes
      /\ \A r \in prev.notified \ prev.marked :
           /\ r \in Selected
           /\ LoopDone => r \in cur.notified
      /\ ( /\ prev.exitMsg \in {"no_new", "all_processed"}
           /\ prev.marked = prev.selected
           /\ ~prev.added )
         => /\ new_rows = <<>>
            /\ archiveRows = start.archiveRows
            /\ cur.notified = {} /\ cur.marked = {}

\* C2 witness: the second run ended its loop; the earlier run had marked one
\* row and had notified another without marking it, and this run notified
\* that one again and left the marked one alone
C2_Witness ==
    /\ runNo = 2 /\ LoopDone
    /\ \E a \in prev.marked, b \in prev.notified \ prev.marked :
         /\ a \notin Selected
         /\ b \in cur.notified

\* C2, the idempotent case: the earlier run marked every row it selected,
\* no row was added, and the second run found nothing to do
C2_WitnessNothingLeft ==
    /\ runNo = 2 /\ pc = "exit" /\ exitMsg = "no_new"
    /\ prev.exitMsg = "all_processed" /\ prev.selected # {}
    /\ prev.marked = prev.selected /\ ~prev.added
    /\ archiveRows = start.archiveRows

\* ------------------------------------------------ the ledger filter
ProcessedValues == {Empty, Yes, YesLower, YesUpper, YesPadded}

\* one run on sheets whose Processed cells hold "Yes", its look-alikes or
\* nothing; no channel and no summarization backend
InitFilter ==
    InitOf({LayoutCanon, LayoutProcFirst, LayoutForm},
           {Env(TRUE, TRUE, FALSE, FALSE, FALSE)}, Replies, ProcessedValues,
           {ShortText}, {High}, {TRUE}, 0..MaxRows)

SpecFilter == InitFilter /\ [][Next]_vars

\* sheet rows of the start sheet, in sheet order
StartRows == 2..(Len(start.grid) + 1)

StartValue(r) == ProcessedCell(start.headers, start.grid, r)

\* C9: the ledger filter returns exactly the rows whose Processed value is
\* not the exact string "Yes", in sheet order: a row holding "Yes" is not
\* selected; a row holding nothing, "yes", "YES" or " Yes " is selected (the
\* value is neither trimmed nor case-folded); an empty result is reported
\* and ends the run with status zero, nothing sent, marked or appended.
C9_FilterExactYes ==
    Filtered =>
      /\ \A r \in StartRows :
           /\ StartValue(r) = Yes => r \notin Selected
           /\ StartValue(r) \in {Empty, YesLower, YesUpper, YesPadded}
                => r \in Selected
           /\ r \in Selected <=> StartValue(r) # Yes
      /\ Selected \subseteq StartRows
      /\ \A j, k \in DOMAIN new_rows : j < k => new_rows[j] < new_rows[k]
      /\ (pc = "exit" /\ exitMsg = "no_new") <=> (\A r \in StartRows : StartValue(r) = Yes)
      /\ (pc = "exit" /\ exitMsg = "no_new") =>
           /\ exitCode = 0
           /\ ~yag /\ ~slack
           /\ cur.notified = {} /\ cur.marked = {} /\ updates_made = 0
           /\ headers = start.headers /\ grid = start.grid
           /\ archiveRows = start.archiveRows
           /\ "mark" \notin effects /\ "append" \notin effects

\* C9 witness: a row holding "Yes" was left out and a later row holding a
\* look-alike of "Yes" was selected
C9_Witness ==
    /\ Filtered
    /\ \E a, b \in StartRows :
         /\ a < b
         /\ StartValue(a) = Yes /\ a \notin Selected
         /\ StartValue(b) \in {YesLower, YesUpper, YesPadded} /\ b \in Selected

\* C9, the empty result: every row holds "Yes" and the run exited cleanly
C9_WitnessNoNew ==
    /\ pc = "exit" /\ exitMsg = "no_new" /\ exitCode = 0
    /\ Len(start.grid) >= 1
    /\ new_rows = <<>>

\* --------------------------------------------- header normalization
Cases == {"lower", "title", "upper"}

\* a synonym of field f as a form author may type it
Variants(f) ==
    {H(aliases[f][k], c, p) : k \in DOMAIN aliases[f], c \in Cases, p \in BOOLEAN}

\* the columns of the field under test: none, one synonym, or two
FocusCols(f) ==
    {<<>>} \cup {<<a>> : a \in Variants(f)}
           \cup {p \in Variants(f) \X Variants(f) : p[1] # p[2]}

\* the column of another field: canonical, or its last synonym typed in
\* lower case with white space around it
Styles == {"canonical", "padded"}
OtherCol(g, style) ==
    IF style = "canonical" THEN Canonical(g)
    ELSE H(aliases[g][Len(aliases[g])], "lower", TRUE)

NormLayout(f, fc, style) ==
    LET Col(g) == IF g = f THEN fc ELSE <<OtherCol(g, style)>>
    IN  Col("Timestamp") \o Col("Name") \o <<Title("phone")>> \o Col("Email")
          \o Col("Symptoms") \o Col("Urgency")

FocusPairs == UNION {{<<g, x>> : x \in FocusCols(g)} : g \in Range(FieldOrder)}

NormLayouts ==
    {NormLayout(fc[1], fc[2], style) : fc \in FocusPairs, style \in Styles}

\* one run on a sheet of one inquiry under each of these header rows
InitNorm ==
    InitOf(NormLayouts, {Env(TRUE, TRUE, FALSE, FALSE, FALSE)}, Replies,
           {Empty}, {ShortText}, {High}, {TRUE}, {1})

SpecNorm == InitNorm /\ [][Next]_vars

\* "Aliases -> renames -> required columns" has run
Normalized ==
    \/ Filtered
    \/ pc = "filter"
    \/ pc = "exit" /\ exitMsg = "missing_columns"

\* the header row holds synonym k of field f, in some case and padding
Present(f, k) ==
    \E c \in DOMAIN start.headers :
      StripName(Lower(start.headers[c])) = Alias(aliases[f][k])

HasSynonym(f) == \E k \in DOMAIN aliases[f] : Present(f, k)

Earliest(f) ==
    CHOOSE k \in DOMAIN aliases[f] :
      Present(f, k) /\ \A m \in 1..(k - 1) : ~Present(f, m)

\* the header, as the sheet has it, of the column df knows as field f
Chosen(f) == headers[IndexOf(dfCols, Canonical(f))]

\* C8: when the header row holds, for each of the five canonical fields, at
\* least one of its synonyms in any letter case and padding, normalization
\* resolves all five fields, each to one column, and the run does not fail
\* for missing columns; the column chosen for a field is one that matches the
\* earliest synonym of the field's list that the header row holds.
C8_NormalizationResolves ==
    (Normalized /\ \A f \in Range(FieldOrder) : HasSynonym(f)) =>
      /\ exitMsg # "missing_columns"
      /\ Missing(dfCols) = <<>>
      /\ \A f \in Range(FieldOrder) :
           /\ Cardinality({c \in DOMAIN dfCols : dfCols[c] = Canonical(f)}) = 1
           /\ StripName(Lower(Chosen(f))) = Alias(aliases[f][Earliest(f)])

\* C8 witness: the header row holds two synonyms of a field, the later one
\* of the list in the earlier column, neither in the canonical spelling, and
\* the column of the earlier synonym was chosen
C8_Witness ==
    /\ pc = "filter"
    /\ \E f \in Range(FieldOrder) : \E a, b \in DOMAIN start.headers :
         /\ a < b
         /\ InAliases(f, start.headers[a]) /\ InAliases(f, start.headers[b])
         /\ start.headers[b].pad /\ start.headers[b].case = "upper"
         /\ StripName(Lower(start.headers[a])) # StripName(Lower(start.headers[b]))
         /\ Canonical(f) \notin Range(start.headers)
         /\ Chosen(f) = start.headers[b]
         /\ dfCols[b] = Canonical(f) /\ dfCols[a] = start.headers[a]

\* C8, the other side: a field without any synonym stops the run
C8_WitnessMissing ==
    /\ pc = "exit" /\ exitMsg = "missing_columns" /\ exitCode = 1
    /\ \E f \in Range(FieldOrder) : ~HasSynonym(f)

\* ------------------------------------------------------ the summarizer
\* symptoms around the 200-character cut, with and without newlines
SumTexts ==
    {Empty, ShortText, LongText,
     <<Run("a", 200)>>,
     <<Run("a", 200), Run("b", 1)>>,
     <<Run("a", 199), Run(NL, 2), Run("b", 5)>>}

NotJson     == Content(<<Run("n", 1), Run("o", 1)>>, "invalid", NoObj)
BadPadded   == Content(<<Run(SP, 3), Run("z", 650), Run(NL, 2)>>, "invalid", NoObj)
JsonList    == Content(Word("[1, 2]"), "nondict", NoObj)
JsonNumbers == Content(Word("{\"summary\": 1}"), "dict",
                       [summary |-> NotStr, urgency |-> Absent, keywords |-> <<>>])
JsonEmpty   == Content(Word("{}"), "dict", NoObj)

SumReplies ==
    {GoodJson, JsonEmpty, NotJson, BadText, BadPadded, JsonList, JsonNumbers,
     NoContent, Raised(Word("timeout"))}

\* one run on a sheet of one inquiry, with an API key in the environment
InitSum ==
    InitOf({LayoutCanon}, {Env(TRUE, TRUE, FALSE, FALSE, TRUE)}, SumReplies,
           {Empty}, SumTexts, {Empty, High}, {TRUE}, {1})

SpecSum == InitSum /\ [][Next]_vars

\* the current row has been summarized and is on its way through the loop
Summarized == pc \in {"email", "slack", "mark", "append"}

Min(a, b) == IF a < b THEN a ELSE b

\* x is the first k characters of t (all of t if it is shorter), with every
\* newline replaced by a space when nl is set
IsPrefix(x, t, k, nl) ==
    /\ TextLen(x) = Min(k, TextLen(t))
    /\ \A i \in 1..TextLen(x) :
         CharAt(x, i) = IF nl /\ CharAt(t, i) = NL THEN SP ELSE CharAt(t, i)

\* the summary record has the reported urgency, or "Unknown", and no keywords
KeepsUrgency(out, urg) ==
    /\ out.urgency = (IF urg = Empty THEN Unknown ELSE urg)
    /\ out.keywords = <<>>

\* the backend answered content that is not the expected structure
Malformed(r) ==
    /\ r.kind = "content"
    /\ \/ r.parse \in {"invalid", "nondict"}
       \/ r.obj.summary.t = "other" \/ r.obj.urgency.t = "other"

\* without a backend: the template around the first 200 characters of the
\* symptoms, newlines as spaces
FallbackCase(out, sym, urg) ==
    ~use_openai =>
      /\ Len(out.summary) >= 2
      /\ out.summary[1] = Run("Reported symptoms: ", 1)
      /\ out.summary[Len(out.summary)] = Run("...", 1)
      /\ IsPrefix(SubSeq(out.summary, 2, Len(out.summary) - 1), sym,
                  SummaryLimit, TRUE)
      /\ \A i \in 2..(Len(out.summary) - 1) : out.summary[i].ch # NL
      /\ KeepsUrgency(out, urg)

\* the backend call raised: the summary embeds the error
ErrorCase(out, urg) ==
    (use_openai /\ resp.kind = "error") =>
      /\ out.summary = Word("(OpenAI error: ") \o resp.err \o Word(")")
      /\ KeepsUrgency(out, urg)

\* whatever the backend did, the row went on to the notify step, and a run
\* that selected rows ends by finishing its loop
GoesOn ==
    /\ Summarized => rowLog.idx = idx /\ rowLog.evs[1] = "summarized"
    /\ IterationEnded =>
         /\ rowLog.evs[1] = "summarized"
         /\ rowLog.evs[2] \in {"email_sent", "email_failed", "email_skipped"}
    /\ (pc = "exit" /\ new_rows # <<>>) =>
         exitMsg = "all_processed" /\ exitCode = 0

\* C10 (as claimed): the summarizer never fails its caller.  Without a
\* backend it returns the template around the first 200 characters of the
\* symptoms (newlines as spaces), the reported urgency or "Unknown", no
\* keywords; on backend output that is not the expected structure it
\* returns the first 600 characters of that raw output as the summary, the
\* reported urgency or "Unknown", no keywords; on a backend error it returns
\* a summary embedding the error, the reported urgency or "Unknown", no
\* keywords; in every case the row goes on to the notify step.
C10_SummarizerRawText ==
    /\ GoesOn
    /\ Summarized =>
         LET out == Loads(ai_json)
             sym == RowField("Symptoms")
             urg == RowField("Urgency")
         IN  /\ FallbackCase(out, sym, urg)
             /\ ErrorCase(out, urg)
             /\ (use_openai /\ Malformed(resp)) =>
                  /\ IsPrefix(out.summary, resp.text, RawLimit, FALSE)
                  /\ KeepsUrgency(out, urg)

\* C10 (amended): as above, but on backend output that is not the expected
\* structure the summary is the first 600 characters of that output with
\* its leading and trailing white space removed.
C10_SummarizerTotal ==
    /\ GoesOn
    /\ Summarized =>
         LET out == Loads(ai_json)
             sym == RowField("Symptoms")
             urg == RowField("Urgency")
         IN  /\ FallbackCase(out, sym, urg)
             /\ ErrorCase(out, urg)
             /\ (use_openai /\ Malformed(resp)) =>
                  /\ IsPrefix(out.summary, Strip(resp.text), RawLimit, FALSE)
                  /\ TextLen(out.summary) <= RawLimit
                  /\ KeepsUrgency(out, urg)

\* C10 witness: the backend answered more than 600 characters that are not
\* JSON, with white space around them; the summary is 600 characters long
\* and the row was marked after it
C10_Witness ==
    /\ pc = "append" /\ Has("mark_ok")
    /\ use_openai /\ Malformed(resp)
    /\ TextLen(resp.text) > RawLimit
    /\ IsSpace(CharAt(resp.text, 1))
    /\ TextLen(Loads(ai_json).summary) = RawLimit
    /\ Loads(ai_json).keywords = <<>>

\* C10, without a backend: symptoms longer than 200 characters with a
\* newline among the first 200, and no reported urgency
C10_WitnessFallback ==
    /\ pc = "append"
    /\ ~use_openai
    /\ TextLen(RowField("Symptoms")) > SummaryLimit
    /\ \E i \in 1..SummaryLimit : CharAt(RowField("Symptoms"), i) = NL
    /\ TextLen(Loads(ai_json).summary) = SummaryLimit + 2
    /\ RowField("Urgency") = Empty /\ Loads(ai_json).urgency = Unknown

\* C10, a backend error: the summary embeds it
C10_WitnessError ==
    /\ pc = "append"
    /\ use_openai /\ resp.kind = "error" /\ resp.err # Empty
    /\ Loads(ai_json).summary[2] = resp.err[1]

====
